---- MODULE Spec2Model ----
(***************************************************************************)
(* Model of the .gitignore reconciliation engine of run-z/project-config:  *)
(* GitIgnoreFile, GitIgnoreSection, GitIgnoreEntry and their controllers.  *)
(*                                                                         *)
(* Strings are sequences of one-character strings.  Objects live in a heap *)
(* (sequences of records addressed by index), because the code relies on   *)
(* object identity: several GitIgnoreEntryCtl objects may exist for one    *)
(* pattern, and an entry handle may be rebound to another controller.      *)
(***************************************************************************)
EXTENDS Integers, Sequences, FiniteSets, TLC

\* ------------------------------------------------------------------ bounds

\* calls made on one file
MaxSteps == 4
\* statements in a build function
MaxBuild == 2
\* characters in a pattern given to the line codec
MaxPattern == 2
\* lines in a text given to parse() of a new file
MaxLines == 4

\* ----------------------------------------------------------------- strings

IsSpace(c) == c \in {" ", "\t", "\r", "\n"}

StartsWith(s, c) == Len(s) > 0 /\ s[1] = c

EndsWith(s, c) == Len(s) > 0 /\ s[Len(s)] = c

StartsWith2(s, c, d) == Len(s) > 1 /\ s[1] = c /\ s[2] = d

RECURSIVE TrimEnd(_)
TrimEnd(s) ==
    IF Len(s) > 0 /\ IsSpace(s[Len(s)]) THEN TrimEnd(SubSeq(s, 1, Len(s) - 1)) ELSE s

RECURSIVE TrimStart(_)
TrimStart(s) ==
    IF Len(s) > 0 /\ IsSpace(s[1]) THEN TrimStart(Tail(s)) ELSE s

Trim(s) == TrimStart(TrimEnd(s))

\* content.split(/\r?\n/)
RECURSIVE SplitLines(_, _, _)
SplitLines(s, i, cur) ==
    IF i > Len(s) THEN <<cur>>
    ELSE IF s[i] = "\n" THEN <<cur>> \o SplitLines(s, i + 1, <<>>)
    ELSE IF s[i] = "\r" /\ i < Len(s) /\ s[i + 1] = "\n"
         THEN <<cur>> \o SplitLines(s, i + 2, <<>>)
    ELSE SplitLines(s, i + 1, Append(cur, s[i]))

\* title.replaceAll('\n', eol + '# ')
RECURSIVE ReplaceNewlines(_, _)
ReplaceNewlines(s, by) ==
    IF s = <<>> THEN <<>>
    ELSE (IF s[1] = "\n" THEN by ELSE <<s[1]>>) \o ReplaceNewlines(Tail(s), by)

EOL == <<"\n">>

\* ------------------------------------------------------------------- codec

\* gitIgnorePattern(rawPattern): the pattern and the markers of a raw pattern
gitIgnorePattern(rawPattern) ==
    LET hasBang == StartsWith(rawPattern, "!")
        r1 == IF hasBang THEN Tail(rawPattern) ELSE rawPattern
        hasSlash == EndsWith(r1, "/")
        r2 == IF hasSlash THEN SubSeq(r1, 1, Len(r1) - 1) ELSE r1
    IN [pattern |-> r2,
        match |-> IF hasSlash THEN "dirs" ELSE "none",
        effect |-> IF hasBang THEN "include" ELSE "none"]

\* GitIgnoreEntryCtl.parse(line): "none" for no entry, else pattern/match/effect
ParseLine(line) ==
    LET l1 == IF StartsWith2(line, "\\", "#") THEN Tail(line) ELSE line
        l2 == IF EndsWith(l1, "\\") THEN SubSeq(l1, 1, Len(l1) - 1) ELSE l1
        g == gitIgnorePattern(l2)
    IN IF l2 = <<>> THEN [ok |-> FALSE, pattern |-> <<>>, match |-> "none", effect |-> "none"]
       ELSE [ok |-> TRUE, pattern |-> g.pattern,
             match |-> IF g.match = "none" THEN "all" ELSE g.match,
             effect |-> IF g.effect = "none" THEN "ignore" ELSE g.effect]

\* GitIgnoreEntry.toString(): the line of a pattern with its effect and match
FormatLine(pattern, effect, match) ==
    LET head == IF effect = "include" THEN <<"!">> \o pattern
                ELSE (IF StartsWith(pattern, "#") THEN <<"\\">> ELSE <<>>) \o pattern
    IN IF match = "dirs" THEN head \o <<"/">>
       ELSE IF TrimEnd(pattern) # pattern THEN head \o <<"\\">>
       ELSE head

\* -------------------------------------------------------------------- heap
\* A file state f is a record:
\*   ctls      the GitIgnoreEntryCtl objects   [pattern, match, effect, attachedTo, detached]
\*   handles   the GitIgnoreEntry$ objects     [sec, ctl]
\*   titles    GitIgnoreFile.#sectionCtls, in insertion order; a section is its index
\*   entries   per section, GitIgnoreSectionCtl.#entries: [pattern, entry, ctl] in map order
\*   detached  per section, GitIgnoreSectionCtl.#detached: [on, map]
\*   registry  GitIgnoreFileCtl.#entryCtls: pattern -> ctl
\*   modified  GitIgnoreFileCtl.#isModified
\* Section 0 and ctl 0 stand for undefined; "none" for an unset match or effect.

\* new GitIgnoreFile()
EmptyFile ==
    [ctls |-> <<>>, handles |-> <<>>, titles |-> <<>>, entries |-> <<>>,
     detached |-> <<>>, registry |-> <<>>, modified |-> FALSE]

NoDetached == [on |-> FALSE, map |-> <<>>]

\* Index of a pattern in a Map kept as a sequence of records (0: absent)
IndexOf(map, pattern) ==
    IF \E i \in 1..Len(map) : map[i].pattern = pattern
    THEN CHOOSE i \in 1..Len(map) : map[i].pattern = pattern
    ELSE 0

\* Map.set(pattern, value): in place for an existing key, appended otherwise
MapSet(map, rec) ==
    LET i == IndexOf(map, rec.pattern)
    IN IF i = 0 THEN Append(map, rec) ELSE [map EXCEPT ![i] = rec]

\* Map.delete(pattern)
MapDelete(map, pattern) ==
    LET i == IndexOf(map, pattern)
    IN IF i = 0 THEN map ELSE SubSeq(map, 1, i - 1) \o SubSeq(map, i + 1, Len(map))

IndexOfTitle(f, title) ==
    IF \E i \in 1..Len(f.titles) : f.titles[i] = title
    THEN CHOOSE i \in 1..Len(f.titles) : f.titles[i] = title
    ELSE 0

\* GitIgnoreFile.#sectionCtl(title): the file with the section, and its index
SectionCtl(f, title) ==
    LET i == IndexOfTitle(f, title)
    IN IF i # 0 THEN [f |-> f, sec |-> i]
       ELSE [f |-> [f EXCEPT !.titles = Append(@, title),
                             !.entries = Append(@, <<>>),
                             !.detached = Append(@, NoDetached)],
             sec |-> Len(f.titles) + 1]

\* GitIgnoreFileCtl.entryCtl(pattern)
EntryCtl(f, pattern) ==
    IF pattern \in DOMAIN f.registry THEN f.registry[pattern] ELSE 0

\* GitIgnoreFileCtl.modify(modified)
Modify(f, modified) == [f EXCEPT !.modified = modified]

\* new GitIgnoreEntryCtl(pattern, match, effect)
NewCtl(f, pattern, match, effect) ==
    [f |-> [f EXCEPT !.ctls = Append(@, [pattern |-> pattern, match |-> match,
                                         effect |-> effect, attachedTo |-> 0,
                                         detached |-> FALSE])],
     ctl |-> Len(f.ctls) + 1]

\* GitIgnoreEntryCtl.entryFor(sectionCtl): new GitIgnoreEntry$(sectionCtl, this)
EntryFor(f, c, sec) ==
    [f |-> [f EXCEPT !.handles = Append(@, [sec |-> sec, ctl |-> c])],
     entry |-> Len(f.handles) + 1]

\* ------------------------------------------------------------ entry handle

PatternOf(f, h) == f.ctls[f.handles[h].ctl].pattern

\* GitIgnoreEntry$.#currentCtl
CurrentCtl(f, h) == EntryCtl(f, PatternOf(f, h))

\* GitIgnoreEntry$.currentSection (0: undefined)
CurrentSection(f, h) ==
    LET c == CurrentCtl(f, h) IN IF c = 0 THEN 0 ELSE f.ctls[c].attachedTo

\* GitIgnoreEntry$.isDetached
IsDetached(f, h) == f.ctls[f.handles[h].ctl].attachedTo # f.handles[h].sec

\* GitIgnoreEntry$.effect
EffectOf(f, h) ==
    LET own == f.ctls[f.handles[h].ctl].effect
        c == CurrentCtl(f, h)
    IN IF own # "none" THEN own
       ELSE IF c # 0 /\ f.ctls[c].effect # "none" THEN f.ctls[c].effect
       ELSE "ignore"

\* GitIgnoreEntry$.match
MatchOf(f, h) ==
    LET own == f.ctls[f.handles[h].ctl].match
        c == CurrentCtl(f, h)
    IN IF own # "none" THEN own
       ELSE IF c # 0 /\ f.ctls[c].match # "none" THEN f.ctls[c].match
       ELSE "all"

\* ---------------------------------------------------------- entry controller

\* GitIgnoreEntryCtl.#modify(sectionCtl)
CtlModify(f, c, sec) ==
    IF ~f.ctls[c].detached /\ f.ctls[c].attachedTo = sec THEN Modify(f, TRUE) ELSE f

\* GitIgnoreEntryCtl.setEffect(sectionCtl, effect)
CtlSetEffect(f, c, sec, effect) ==
    IF f.ctls[c].effect # effect
    THEN CtlModify([f EXCEPT !.ctls[c].effect = effect], c, sec)
    ELSE f

\* GitIgnoreEntryCtl.setMatch(sectionCtl, match)
CtlSetMatch(f, c, sec, match) ==
    IF f.ctls[c].match # match
    THEN CtlModify([f EXCEPT !.ctls[c].match = match], c, sec)
    ELSE f

\* GitIgnoreEntryCtl.updateBy(other): the file and whether this ctl changed
UpdateBy(f, this, other) ==
    LET t == f.ctls[this]
        o == f.ctls[other]
        m1 == t.attachedTo # o.attachedTo
        m2 == o.effect # "none" /\ o.effect # t.effect
        m3 == o.match # "none" /\ o.match # t.match
    IN [f |-> [f EXCEPT !.ctls[this] =
                  [t EXCEPT !.attachedTo = o.attachedTo,
                            !.effect = IF m2 THEN o.effect ELSE @,
                            !.match = IF m3 THEN o.match ELSE @]],
        modified |-> m1 \/ m2 \/ m3]

\* GitIgnoreFileCtl.attachEntry(entryCtl): the file and the registered ctl
FileAttachEntry(f, c) ==
    LET pattern == f.ctls[c].pattern
        existingCtl == EntryCtl(f, pattern)
    IN IF existingCtl # 0
       THEN LET u == UpdateBy(f, existingCtl, c)
            IN [f |-> IF u.modified THEN Modify(u.f, TRUE) ELSE u.f, ctl |-> existingCtl]
       ELSE [f |-> Modify([f EXCEPT !.registry =
                              [p \in DOMAIN f.registry \cup {pattern} |->
                                  IF p = pattern THEN c ELSE f.registry[p]]], TRUE),
             ctl |-> c]

\* GitIgnoreFileCtl.removeEntry(entryCtl)
FileRemoveEntry(f, c) ==
    LET pattern == f.ctls[c].pattern
    IN IF pattern \in DOMAIN f.registry
       THEN Modify([f EXCEPT !.registry =
                       [p \in DOMAIN f.registry \ {pattern} |-> f.registry[p]]], TRUE)
       ELSE f

\* GitIgnoreSectionCtl.attachEntry(entry, entryCtl): the file and the entry's ctl
SectionAttachEntry(f, sec, h, c) ==
    LET pattern == f.ctls[c].pattern
        f1 == [f EXCEPT !.entries[sec] =
                  MapSet(@, [pattern |-> pattern, entry |-> h, ctl |-> c])]
        d == f1.detached[sec]
    IN IF d.on /\ IndexOf(d.map, pattern) # 0
       THEN [f |-> [f1 EXCEPT !.detached[sec].map = MapDelete(@, pattern),
                              !.ctls[c].detached = FALSE],
             ctl |-> c]
       ELSE FileAttachEntry(f1, c)

\* GitIgnoreSectionCtl.removeEntry(entryCtl)
SectionRemoveEntry(f, sec, c) ==
    FileRemoveEntry([f EXCEPT !.entries[sec] = MapDelete(@, f.ctls[c].pattern)], c)

\* GitIgnoreEntryCtl.attachTo(sectionCtl, entry): the file and the ctl to use
CtlAttachTo(f, c, sec, h) ==
    IF ~f.ctls[c].detached /\ f.ctls[c].attachedTo = sec
    THEN [f |-> f, ctl |-> c]
    ELSE SectionAttachEntry([f EXCEPT !.ctls[c].attachedTo = sec], sec, h, c)

\* GitIgnoreEntryCtl.remove(sectionCtl)
CtlRemove(f, c, sec) ==
    IF f.ctls[c].attachedTo = sec
    THEN [SectionRemoveEntry(f, sec, c) EXCEPT !.ctls[c].attachedTo = 0]
    ELSE f

\* GitIgnoreEntry$.setEffect(effect)
SetEffect(f, h, effect) == CtlSetEffect(f, f.handles[h].ctl, f.handles[h].sec, effect)

\* GitIgnoreEntry$.setMatch(match)
SetMatch(f, h, match) == CtlSetMatch(f, f.handles[h].ctl, f.handles[h].sec, match)

\* GitIgnoreEntry$.attach(): this.#ctl = this.#ctl.attachTo(this.#sectionCtl, this)
Attach(f, h) ==
    LET r == CtlAttachTo(f, f.handles[h].ctl, f.handles[h].sec, h)
    IN [r.f EXCEPT !.handles[h].ctl = r.ctl]

\* GitIgnoreEntry.ignore(ignore): setEffect(ignore ? 'ignore' : 'include') then attach()
Ignore(f, h, ignore) == Attach(SetEffect(f, h, IF ignore THEN "ignore" ELSE "include"), h)

\* GitIgnoreEntry$.remove()
Remove(f, h) == CtlRemove(f, f.handles[h].ctl, f.handles[h].sec)

\* ----------------------------------------------------------------- section

\* the update() closure of gitIgnorePattern(): applies the markers to an entry
UpdateEntry(f, h, g) ==
    LET f1 == IF g.match # "none" THEN SetMatch(f, h, g.match) ELSE f
    IN IF g.effect # "none" THEN SetEffect(f1, h, g.effect) ELSE f1

\* entry() that also attaches the entry it returns
SectionEntryAttached(f, sec, rawPattern, entryCtl) ==
    LET g == gitIgnorePattern(rawPattern)
        i == IndexOf(f.entries[sec], g.pattern)
        n == IF entryCtl # 0 THEN [f |-> f, ctl |-> entryCtl]
             ELSE NewCtl(f, g.pattern, "none", "none")
        r == IF i # 0 THEN [f |-> f, entry |-> f.entries[sec][i].entry]
             ELSE EntryFor(n.f, n.ctl, sec)
    IN [f |-> Attach(UpdateEntry(r.f, r.entry, g), r.entry), entry |-> r.entry]

\* GitIgnoreSectionCtl.entry(rawPattern, entryCtl): the file and the entry handle
SectionEntry(f, sec, rawPattern, entryCtl) ==
    LET g == gitIgnorePattern(rawPattern)
        i == IndexOf(f.entries[sec], g.pattern)
        n == IF entryCtl # 0 THEN [f |-> f, ctl |-> entryCtl]
             ELSE NewCtl(f, g.pattern, "none", "none")
        r == IF i # 0 THEN [f |-> f, entry |-> f.entries[sec][i].entry]
             ELSE EntryFor(n.f, n.ctl, sec)
    IN [f |-> UpdateEntry(r.f, r.entry, g), entry |-> r.entry]

\* entries() without the check of the entry's current section
YieldedAll(f, sec) == f.entries[sec]

\* The entries GitIgnoreSectionCtl.entries() yields, as map records, in order
Yielded(f, sec) ==
    SelectSeq(f.entries[sec], LAMBDA e : CurrentSection(f, e.entry) = sec)

\* GitIgnoreSectionCtl.entries() run to its end: stale records are deleted
SectionEntries(f, sec) == [f EXCEPT !.entries[sec] = Yielded(f, sec)]

\* GitIgnoreSection.patterns()
Patterns(f, sec) == [i \in 1..Len(Yielded(f, sec)) |-> Yielded(f, sec)[i].pattern]

\* GitIgnoreSection.toString(eol)
SectionToString(f, sec, eol) ==
    LET title == f.titles[sec]
        y == Yielded(f, sec)
        Line(e) == FormatLine(e.pattern, EffectOf(f, e.entry), MatchOf(f, e.entry)) \o eol
        RECURSIVE Lines(_)
        Lines(i) == IF i > Len(y) THEN <<>> ELSE Line(y[i]) \o Lines(i + 1)
    IN (IF title # <<>>
        THEN <<"#", " ">> \o ReplaceNewlines(title, eol \o <<"#", " ">>) \o eol
        ELSE <<>>) \o Lines(1)

\* A call on an entry handle, by name
HandleOp(f, h, op) ==
    CASE op = "entry" -> f
      [] op = "attach" -> Attach(f, h)
      [] op = "ignore" -> Ignore(f, h, TRUE)
      [] op = "include" -> Ignore(f, h, FALSE)
      [] op = "remove" -> Remove(f, h)
      [] op = "matchAll" -> SetMatch(f, h, "all")
      [] op = "matchDirs" -> SetMatch(f, h, "dirs")
      [] op = "effectIgnore" -> SetEffect(f, h, "ignore")
      [] op = "effectInclude" -> SetEffect(f, h, "include")

RECURSIVE ReplaceEntries(_, _, _)

\* file.section(title).entry(raw) followed by one call on the entry:
\* a statement cmd = [op, title, raw] of caller code; or, with op "replace",
\* file.section(title).replace(inner) called from inside a build function
Exec(f, cmd) ==
    LET s == SectionCtl(f, cmd.title)
        e == SectionEntry(s.f, s.sec, cmd.raw, 0)
    IN IF cmd.op = "replace" THEN ReplaceEntries(s.f, s.sec, cmd.inner)
       ELSE HandleOp(e.f, e.entry, cmd.op)

\* A build function throws: it has a throw statement
Throws(build) == \E i \in 1..Len(build) : build[i].op = "throw"

\* A build function is the sequence of its statements; a throw statement ends it
RECURSIVE RunBuild(_, _)
RunBuild(f, build) ==
    IF build = <<>> \/ Head(build).op = "throw" THEN f
    ELSE RunBuild(Exec(f, Head(build)), Tail(build))

\* The loop that detaches all existing entries in replaceEntries()
RECURSIVE DetachAll(_, _, _)
DetachAll(f, sec, i) ==
    IF i > Len(f.entries[sec]) THEN f
    ELSE LET e == f.entries[sec][i]
         IN DetachAll([f EXCEPT !.ctls[e.ctl].detached = TRUE,
                                !.detached[sec].map = MapSet(@, e)], sec, i + 1)

\* The finally block of replaceEntries(): removes the still detached entries
RECURSIVE RemoveDetached(_, _, _)
RemoveDetached(f, sec, i) ==
    IF i > Len(f.detached[sec].map) THEN [f EXCEPT !.detached[sec] = NoDetached]
    ELSE RemoveDetached(Remove(f, f.detached[sec].map[i].entry), sec, i + 1)

\* replaceEntries() with the cleanup after build() instead of in a finally block
ReplaceNoFinally(f, sec, build) ==
    IF f.detached[sec].on THEN RunBuild(f, build)
    ELSE LET f1 == DetachAll([f EXCEPT !.detached[sec] = [on |-> TRUE, map |-> <<>>]],
                             sec, 1)
         IN IF Throws(build) THEN RunBuild(f1, build)
            ELSE RemoveDetached(RunBuild(f1, build), sec, 1)

\* GitIgnoreSectionCtl.replaceEntries(build): the sweep runs also when build throws
ReplaceEntries(f, sec, build) ==
    IF f.detached[sec].on THEN RunBuild(f, build)
    ELSE LET f1 == DetachAll([f EXCEPT !.detached[sec] = [on |-> TRUE, map |-> <<>>]],
                             sec, 1)
         IN RemoveDetached(RunBuild(f1, build), sec, 1)

\* -------------------------------------------------------------------- file

\* GitIgnoreFile.entry(rawPattern): the file and the entry handle
FileEntry(f, rawPattern) ==
    LET g == gitIgnorePattern(rawPattern)
        entryCtl == EntryCtl(f, g.pattern)
    IN IF entryCtl # 0 /\ f.ctls[entryCtl].attachedTo # 0
       THEN SectionEntry(f, f.ctls[entryCtl].attachedTo, rawPattern, entryCtl)
       ELSE LET s == SectionCtl(f, <<>>) IN SectionEntry(s.f, s.sec, rawPattern, 0)

\* The loop of parse() with a comment line leaving the open section open
RECURSIVE ParseLinesKeepOpen(_, _, _, _, _)
ParseLinesKeepOpen(f, lines, i, prevComment, sec) ==
    IF i > Len(lines)
    THEN IF prevComment # <<>> THEN SectionCtl(f, prevComment).f ELSE f
    ELSE LET line == TrimEnd(lines[i])
         IN IF StartsWith(line, "#")
            THEN LET comment == Trim(Tail(line))
                 IN ParseLinesKeepOpen(f, lines, i + 1,
                                       IF comment # <<>>
                                       THEN (IF prevComment # <<>>
                                             THEN prevComment \o <<"\n">> \o comment
                                             ELSE comment)
                                       ELSE prevComment,
                                       sec)
            ELSE LET entryCtl == ParseLine(line)
                     s == IF prevComment # <<>> THEN SectionCtl(f, prevComment)
                          ELSE IF sec # 0 THEN [f |-> f, sec |-> sec]
                          ELSE IF ~entryCtl.ok THEN [f |-> f, sec |-> 0]
                          ELSE SectionCtl(f, <<>>)
                     n == NewCtl(s.f, entryCtl.pattern, entryCtl.match, entryCtl.effect)
                     e == EntryFor(n.f, n.ctl, s.sec)
                 IN IF entryCtl.ok
                    THEN ParseLinesKeepOpen(CtlAttachTo(e.f, n.ctl, s.sec, e.entry).f,
                                            lines, i + 1, <<>>, s.sec)
                    ELSE ParseLinesKeepOpen(s.f, lines, i + 1, <<>>, s.sec)

\* The loop of parse() with a bare '#' line dropping the pending title
RECURSIVE ParseLinesReset(_, _, _, _, _)
ParseLinesReset(f, lines, i, prevComment, sec) ==
    IF i > Len(lines)
    THEN IF prevComment # <<>> THEN SectionCtl(f, prevComment).f ELSE f
    ELSE LET line == TrimEnd(lines[i])
         IN IF StartsWith(line, "#")
            THEN LET comment == Trim(Tail(line))
                 IN ParseLinesReset(f, lines, i + 1,
                                    IF comment # <<>>
                                    THEN (IF prevComment # <<>>
                                          THEN prevComment \o <<"\n">> \o comment
                                          ELSE comment)
                                    ELSE <<>>,
                                    0)
            ELSE LET entryCtl == ParseLine(line)
                     s == IF prevComment # <<>> THEN SectionCtl(f, prevComment)
                          ELSE IF sec # 0 THEN [f |-> f, sec |-> sec]
                          ELSE IF ~entryCtl.ok THEN [f |-> f, sec |-> 0]
                          ELSE SectionCtl(f, <<>>)
                     n == NewCtl(s.f, entryCtl.pattern, entryCtl.match, entryCtl.effect)
                     e == EntryFor(n.f, n.ctl, s.sec)
                 IN IF entryCtl.ok
                    THEN ParseLinesReset(CtlAttachTo(e.f, n.ctl, s.sec, e.entry).f,
                                         lines, i + 1, <<>>, s.sec)
                    ELSE ParseLinesReset(s.f, lines, i + 1, <<>>, s.sec)

\* The loop of GitIgnoreFile.parse(): prevComment <<>> is null, sec 0 is null
RECURSIVE ParseLines(_, _, _, _, _)
ParseLines(f, lines, i, prevComment, sec) ==
    IF i > Len(lines)
    THEN IF prevComment # <<>> THEN SectionCtl(f, prevComment).f ELSE f
    ELSE LET line == TrimEnd(lines[i])
         IN IF StartsWith(line, "#")
            THEN LET comment == Trim(Tail(line))
                 IN ParseLines(f, lines, i + 1,
                               IF comment # <<>>
                               THEN (IF prevComment # <<>>
                                     THEN prevComment \o <<"\n">> \o comment
                                     ELSE comment)
                               ELSE prevComment,
                               0)
            ELSE LET entryCtl == ParseLine(line)
                     s == IF prevComment # <<>> THEN SectionCtl(f, prevComment)
                          ELSE IF sec # 0 THEN [f |-> f, sec |-> sec]
                          ELSE IF ~entryCtl.ok THEN [f |-> f, sec |-> 0]
                          ELSE SectionCtl(f, <<>>)
                     n == NewCtl(s.f, entryCtl.pattern, entryCtl.match, entryCtl.effect)
                     e == EntryFor(n.f, n.ctl, s.sec)
                 IN IF entryCtl.ok
                    THEN ParseLines(CtlAttachTo(e.f, n.ctl, s.sec, e.entry).f,
                                    lines, i + 1, <<>>, s.sec)
                    ELSE ParseLines(s.f, lines, i + 1, <<>>, s.sec)

\* parse() without the restore of the modified flag
ParseNoRestore(f, content) == ParseLines(f, SplitLines(content, 1, <<>>), 1, <<>>, 0)

\* GitIgnoreFile.parse(content)
Parse(f, content) ==
    Modify(ParseLines(f, SplitLines(content, 1, <<>>), 1, <<>>, 0), f.modified)

\* os.EOL of the platform
OsEOL == <<"\n">>

\* toString(eol) without the '#' line before an untitled section
RECURSIVE FileTextNoHash(_, _, _, _)
FileTextNoHash(f, eol, i, out) ==
    IF i > Len(f.titles) THEN out
    ELSE FileTextNoHash(f, eol, i + 1,
                        out \o (IF out # <<>> THEN eol ELSE <<>>)
                            \o SectionToString(f, i, OsEOL))

\* GitIgnoreFile.toString(eol): the text; sections are rendered by section.toString()
RECURSIVE FileTextFrom(_, _, _, _)
FileTextFrom(f, eol, i, out) ==
    IF i > Len(f.titles) THEN out
    ELSE LET sep == IF out # <<>>
                    THEN eol \o (IF f.titles[i] = <<>> THEN <<"#">> \o eol ELSE <<>>)
                    ELSE <<>>
         IN FileTextFrom(f, eol, i + 1, out \o sep \o SectionToString(f, i, OsEOL))

FileText(f, eol) == FileTextFrom(f, eol, 1, <<>>)

\* The state after toString(): every section has been iterated
RECURSIVE IterateAll(_, _)
IterateAll(f, i) ==
    IF i > Len(f.titles) THEN f ELSE IterateAll(SectionEntries(f, i), i + 1)

\* save() that clears the modified flag before the write has completed
SaveClearFirst(f, writeOk) ==
    IF ~f.modified THEN f ELSE Modify(IterateAll(f, 1), FALSE)

\* GitIgnoreFile.save(path), the write succeeding or failing
Save(f, writeOk) ==
    IF ~f.modified THEN f
    ELSE IF writeOk THEN Modify(IterateAll(f, 1), FALSE)
    ELSE IterateAll(f, 1)

\* --------------------------------------------------------------- observers

\* The (section title, pattern, effect, match) tuples of one section, as serialized
SectionTuples(f, sec) ==
    LET y == Yielded(f, sec)
    IN [i \in 1..Len(y) |->
           [title |-> f.titles[sec], pattern |-> y[i].pattern,
            effect |-> EffectOf(f, y[i].entry), match |-> MatchOf(f, y[i].entry)]]

\* The tuples of the file in the order GitIgnoreFile.entries() yields them
RECURSIVE TuplesFrom(_, _)
TuplesFrom(f, i) ==
    IF i > Len(f.titles) THEN <<>> ELSE SectionTuples(f, i) \o TuplesFrom(f, i + 1)

Tuples(f) == TuplesFrom(f, 1)

Range(seq) == {seq[i] : i \in 1..Len(seq)}

\* --------------------------------------------------------- unreachable objects
\* Objects no section, registry or caller variable refers to are dropped and the
\* rest renumbered in the order they are met, as a garbage collector may do.

RECURSIVE Flatten(_)
Flatten(seqs) == IF seqs = <<>> THEN <<>> ELSE Head(seqs) \o Flatten(Tail(seqs))

RECURSIVE Dedupe(_, _)
Dedupe(seq, acc) ==
    IF seq = <<>> THEN acc
    ELSE Dedupe(Tail(seq), IF Head(seq) \in Range(acc) THEN acc ELSE Append(acc, Head(seq)))

Pos(seq, x) == CHOOSE i \in 1..Len(seq) : seq[i] = x

SetToSeq(S) == CHOOSE q \in [1..Cardinality(S) -> S] : Range(q) = S

Compact(f, h) ==
    LET recs == Flatten(f.entries) \o Flatten([i \in 1..Len(f.detached) |-> f.detached[i].map])
        hs == Dedupe([i \in 1..Len(recs) |-> recs[i].entry]
                     \o (IF h # 0 THEN <<h>> ELSE <<>>), <<>>)
        pats == SetToSeq(DOMAIN f.registry)
        cs == Dedupe([i \in 1..Len(recs) |-> recs[i].ctl]
                     \o [i \in 1..Len(hs) |-> f.handles[hs[i]].ctl]
                     \o [i \in 1..Len(pats) |-> f.registry[pats[i]]], <<>>)
        Rec(e) == [pattern |-> e.pattern, entry |-> Pos(hs, e.entry), ctl |-> Pos(cs, e.ctl)]
        Map(m) == [i \in 1..Len(m) |-> Rec(m[i])]
    IN [f |-> [f EXCEPT
                 !.ctls = [i \in 1..Len(cs) |-> f.ctls[cs[i]]],
                 !.handles = [i \in 1..Len(hs) |->
                                 [sec |-> f.handles[hs[i]].sec,
                                  ctl |-> Pos(cs, f.handles[hs[i]].ctl)]],
                 !.entries = [i \in 1..Len(f.entries) |-> Map(f.entries[i])],
                 !.detached = [i \in 1..Len(f.detached) |->
                                  [on |-> f.detached[i].on, map |-> Map(f.detached[i].map)]],
                 !.registry = [p \in DOMAIN f.registry |-> Pos(cs, f.registry[p])]],
        held |-> IF h # 0 THEN Pos(hs, h) ELSE 0]

\* ------------------------------------------------------------ caller inputs

Titles == {<<>>, <<"t">>}

RawPatterns == {<<"a">>, <<"!", "a">>, <<"b">>}

DeclareOps == {"attach", "ignore", "remove"}

HeldOps == {"attach", "ignore", "remove", "matchDirs", "effectIgnore", "effectInclude"}

HeldPatterns == {<<"a">>, <<"b">>}

\* Statements of a build function for the section `title`
BuildCmds(title) ==
    {[op |-> "ignore", title |-> title, raw |-> <<"a">>],
     [op |-> "ignore", title |-> title, raw |-> <<"b">>],
     [op |-> "entry", title |-> title, raw |-> <<"a">>]}

SeqsUpTo(S, n) == UNION {[1..k -> S] : k \in 0..n}

\* The build functions that run to their end
PlainBuilds(title) == SeqsUpTo(BuildCmds(title), MaxBuild)

\* The build functions that throw after their statements
ThrowingBuilds(title) ==
    {Append(b, [op |-> "throw", title |-> title, raw |-> <<>>]) :
        b \in SeqsUpTo(BuildCmds(title), MaxBuild - 1)}

\* section.replace(inner) as a statement of a build function for the same section
NestedCmds(title) ==
    {[op |-> "replace", title |-> title, raw |-> <<>>, inner |-> b] :
        b \in SeqsUpTo({[op |-> "ignore", title |-> title, raw |-> <<"a">>]}, MaxBuild - 1)}

\* The build functions that call replace() again, alone or beside ignore('b')
NestedBuilds(title) ==
    LET c == [op |-> "ignore", title |-> title, raw |-> <<"b">>]
    IN UNION {{<<n>>, <<c, n>>, <<n, c>>} : n \in NestedCmds(title)}

\* The build function s => { s.entry('a').setMatch('dirs'); }
SetterBuilds(title) == {<<[op |-> "matchDirs", title |-> title, raw |-> <<"a">>]>>}

Builds(title) ==
    PlainBuilds(title) \cup ThrowingBuilds(title) \cup NestedBuilds(title)
        \cup SetterBuilds(title)

RECURSIVE JoinLines(_)
JoinLines(lines) ==
    IF lines = <<>> THEN <<>> ELSE Head(lines) \o <<"\n">> \o JoinLines(Tail(lines))

Texts ==
    {JoinLines(ls) : ls \in {<< <<"a">> >>,
                             << <<"!", "a", "/">> >>,
                             << <<"#", " ", "t">>, <<"a">> >>,
                             << <<"a">>, <<"!", "a">> >>,
                             << <<"b", "\\", "\\">> >>,
                             << <<"a">>, <<"#", " ", "t">>, <<"a">> >>}}

\* -------------------------------------------------------------------- state

VARIABLES
    file,    \* the GitIgnoreFile
    held,    \* an entry handle the caller keeps in a variable (0: none)
    disk,    \* the content of the file at the save path
    saved,   \* the tuples of the file when it was last parsed or saved
    last,    \* the call that has just returned: arguments, and the file before it
    steps,   \* number of calls made
    codec    \* an entry taken through the line codec: formatted, then parsed

vars == <<file, held, disk, saved, last, steps, codec>>

NoCall ==
    [op |-> "none", title |-> <<>>, raw |-> <<>>, call |-> "", build |-> <<>>,
     text |-> <<>>, ok |-> TRUE, handle |-> 0, disk |-> <<>>,
     before |-> EmptyFile]

Call(op) == [NoCall EXCEPT !.op = op, !.before = file]

NoParsed == [ok |-> FALSE, pattern |-> <<>>, match |-> "none", effect |-> "none"]

NoCodec ==
    [phase |-> "none", pattern |-> <<>>, effect |-> "ignore", match |-> "all",
     line |-> <<>>, parsed |-> NoParsed]

Init ==
    /\ file = EmptyFile
    /\ held = 0
    /\ disk = <<>>
    /\ saved = <<>>
    /\ last = NoCall
    /\ steps = 0
    /\ codec = NoCodec

\* A call that leaves the file as f and the caller's handle as h
Step(f, h) ==
    /\ last = NoCall
    /\ steps < MaxSteps
    /\ steps' = steps + 1
    /\ file' = Compact(f, h).f
    /\ held' = Compact(f, h).held
    /\ UNCHANGED codec

\* file.section(title).entry(raw).<op>()
Declare(title, raw, op) ==
    /\ Step(Exec(file, [op |-> op, title |-> title, raw |-> raw]), held)
    /\ last' = [Call("declare") EXCEPT !.title = title, !.raw = raw, !.call = op]
    /\ UNCHANGED <<disk, saved>>

\* entry = file.section(title).entry(raw)
Hold(title, raw) ==
    /\ LET s == SectionCtl(file, title)
           e == SectionEntry(s.f, s.sec, raw, 0)
       IN Step(e.f, e.entry)
    /\ last' = [Call("hold") EXCEPT !.title = title, !.raw = raw]
    /\ UNCHANGED <<disk, saved>>

\* entry = file.entry(raw)
HoldFileEntry(raw) ==
    /\ LET e == FileEntry(file, raw) IN Step(e.f, e.entry)
    /\ last' = [Call("fileEntry") EXCEPT !.raw = raw]
    /\ UNCHANGED <<disk, saved>>

\* entry.<op>() on the handle the caller keeps
HeldCall(op) ==
    /\ held # 0
    /\ Step(HandleOp(file, held, op), held)
    /\ last' = [Call("held") EXCEPT !.call = op, !.handle = held,
                                    !.title = file.titles[file.handles[held].sec],
                                    !.raw = PatternOf(file, held)]
    /\ UNCHANGED <<disk, saved>>

\* file.section(title).replace(build)
Replace(title, build) ==
    /\ LET s == SectionCtl(file, title)
       IN Step(ReplaceEntries(s.f, s.sec, build), held)
    /\ last' = [Call("replace") EXCEPT !.title = title, !.build = build,
                                       !.ok = ~Throws(build)]
    /\ UNCHANGED <<disk, saved>>

\* file.parse(text)
ParseText(text) ==
    /\ Step(Parse(file, text), held)
    /\ saved' = Tuples(file')
    /\ last' = [Call("parse") EXCEPT !.text = text]
    /\ UNCHANGED disk

\* await file.save(path): fs.writeFile() succeeds or throws
SaveFile(writeOk) ==
    /\ Step(Save(file, writeOk), held)
    /\ disk' = IF file.modified /\ writeOk THEN FileText(file, OsEOL) ELSE disk
    /\ saved' = IF file.modified /\ writeOk THEN Tuples(file) ELSE saved
    /\ last' = [Call("save") EXCEPT !.ok = ~file.modified \/ writeOk, !.disk = disk]

\* [...file.section(title).patterns()]
Iterate(title) ==
    /\ LET s == SectionCtl(file, title) IN Step(SectionEntries(s.f, s.sec), held)
    /\ last' = [Call("patterns") EXCEPT !.title = title]
    /\ UNCHANGED <<disk, saved>>

\* The caller has looked at the result of the call and goes on
Return ==
    /\ last # NoCall
    /\ last' = NoCall
    /\ UNCHANGED <<file, held, disk, saved, steps, codec>>

Next ==
    \/ \E title \in Titles, raw \in RawPatterns, op \in DeclareOps : Declare(title, raw, op)
    \/ \E title \in Titles, raw \in HeldPatterns : Hold(title, raw)
    \/ \E raw \in RawPatterns : HoldFileEntry(raw)
    \/ \E op \in HeldOps : HeldCall(op)
    \/ \E title \in Titles : \E build \in Builds(title) : Replace(title, build)
    \/ \E text \in Texts : ParseText(text)
    \/ \E writeOk \in BOOLEAN : SaveFile(writeOk)
    \/ \E title \in Titles : Iterate(title)
    \/ Return

Spec == Init /\ [][Next]_vars

\* --------------------------------------------------------------- line codec
\* One entry (pattern, effect, match) is written as a line by
\* GitIgnoreEntry.toString() and the line is read back as parse() reads a line.

CodecChars == {"#", "x", " ", "\\", "!", "/"}

CodecPatterns == UNION {[1..k -> CodecChars] : k \in 1..MaxPattern}

CodecInit ==
    /\ file = EmptyFile
    /\ held = 0
    /\ disk = <<>>
    /\ saved = <<>>
    /\ last = NoCall
    /\ steps = 0
    /\ codec \in [phase : {"entry"}, pattern : CodecPatterns,
                  effect : {"ignore", "include"}, match : {"all", "dirs"},
                  line : {<<>>}, parsed : {NoParsed}]

\* One line as the loop of parse() reads it: trimmed, a comment or an entry
ReadLine(text) ==
    LET line == TrimEnd(text)
    IN IF StartsWith(line, "#") THEN NoParsed ELSE ParseLine(line)

\* line = entry.toString()
Format ==
    /\ codec.phase = "entry"
    /\ codec' = [codec EXCEPT !.phase = "line",
                              !.line = FormatLine(codec.pattern, codec.effect, codec.match)]
    /\ UNCHANGED <<file, held, disk, saved, last, steps>>

\* the line is parsed
ParseBack ==
    /\ codec.phase = "line"
    /\ codec' = [codec EXCEPT !.phase = "parsed", !.parsed = ReadLine(codec.line)]
    /\ UNCHANGED <<file, held, disk, saved, last, steps>>

CodecNext == Format \/ ParseBack

SpecCodec == CodecInit /\ [][CodecNext]_vars

\* ---------------------------------------------------------- parse and render
\* A new file parses one text, is edited and is rendered with toString(eol).

TextLines == {<<"#", " ", "t">>, <<"#">>, <<"#", " ", "u">>, <<"a">>, <<>>, <<"b">>}

\* The texts of up to MaxLines lines, the last line ended by a newline or not
ParseTexts ==
    LET ended == {JoinLines(ls) : ls \in UNION {[1..k -> TextLines] : k \in 1..MaxLines}}
    IN ended \cup {SubSeq(t, 1, Len(t) - 1) : t \in ended}

Eols == {<<"\n">>, <<"\r", "\n">>}

\* new GitIgnoreFile().parse(text)
ParseFresh(text) ==
    /\ steps = 0
    /\ ParseText(text)

\* file.section('').entry('b').ignore() or .remove() on the parsed file
Edit(op) ==
    /\ steps \in 1..2
    /\ Declare(<<>>, <<"b">>, op)

\* file.toString(eol): the text is kept in last.text, eol in last.raw
FileToString(eol) ==
    /\ steps >= 1
    /\ Step(IterateAll(file, 1), held)
    /\ last' = [Call("toString") EXCEPT !.raw = eol, !.text = FileText(file, eol)]
    /\ UNCHANGED <<disk, saved>>

ParseNext ==
    \/ \E text \in ParseTexts : ParseFresh(text)
    \/ \E op \in {"ignore", "remove"} : Edit(op)
    \/ \E eol \in Eols : FileToString(eol)
    \/ Return

SpecParse == Init /\ [][ParseNext]_vars

\* ------------------------------------------------------------------ claims

\* The section the last call was made on, in the file as it is now
LastSec == IndexOfTitle(file, last.title)

\* The statements of a build with those of its nested replace() calls in place
RECURSIVE Flat(_)
Flat(build) ==
    IF build = <<>> THEN <<>>
    ELSE (IF Head(build).op = "replace" THEN Head(build).inner ELSE <<Head(build)>>)
         \o Flat(Tail(build))

\* The patterns a build declares with ignore() or attach()
Declared(build) ==
    {gitIgnorePattern(Flat(build)[i].raw).pattern :
        i \in {j \in 1..Len(Flat(build)) :
                  Flat(build)[j].op \in {"ignore", "include", "attach"}}}

\* C1: after section.replace(build) the section's entries() are exactly the
\* patterns build attached with ignore()/attach(); everything else is removed.
C1_ReplaceExact ==
    last.op = "replace" => Range(Patterns(file, LastSec)) = Declared(last.build)

\* The file after save() succeeded and the last replace(build) was made once more
ReplacedAgain == ReplaceEntries(Save(file, TRUE), LastSec, last.build)

\* C2: replace(build), save, replace(build) again: the second call leaves
\* isModified false and the section with the same entries.
C2_ReplaceIdempotent ==
    last.op = "replace" =>
        /\ ~ReplacedAgain.modified
        /\ SectionTuples(ReplacedAgain, LastSec) = SectionTuples(file, LastSec)

\* C3: whenever the tuples toString() would serialize differ from those at the
\* last parse or save, isModified is true.
C3_NoSilentChange == Tuples(file) # saved => file.modified

\* The section the last call was made on, in the file as it was before the call
SecBefore == IndexOfTitle(last.before, last.title)

\* The serialized tuple of pattern p in section sec (sec yields p)
TupleOf(f, sec, p) ==
    LET t == SectionTuples(f, sec) IN t[CHOOSE i \in 1..Len(t) : t[i].pattern = p]

\* The effect and match a statement declares, given the ones the entry has
DeclaredEffect(cmd, effect) ==
    CASE cmd.op = "ignore" -> "ignore"
      [] cmd.op = "include" -> "include"
      [] OTHER -> IF gitIgnorePattern(cmd.raw).effect # "none"
                  THEN gitIgnorePattern(cmd.raw).effect ELSE effect

DeclaredMatch(cmd, match) ==
    IF gitIgnorePattern(cmd.raw).match # "none" THEN gitIgnorePattern(cmd.raw).match ELSE match

\* cmd attaches a pattern that section sec of f already yields, with the effect
\* and match-scope the entry already has
Redeclares(f, sec, cmd) ==
    LET p == gitIgnorePattern(cmd.raw).pattern
    IN /\ cmd.op \in {"ignore", "include", "attach"}
       /\ sec # 0
       /\ p \in Range(Patterns(f, sec))
       /\ DeclaredEffect(cmd, TupleOf(f, sec, p).effect) = TupleOf(f, sec, p).effect
       /\ DeclaredMatch(cmd, TupleOf(f, sec, p).match) = TupleOf(f, sec, p).match

LastCmd == [op |-> last.call, title |-> last.title, raw |-> last.raw]

\* The last call re-declared what its section already held and nothing else:
\* one entry directly, or every entry of the section inside replace(build)
RedeclaredOnly ==
    \/ last.op = "declare" /\ Redeclares(last.before, SecBefore, LastCmd)
    \/ /\ last.op = "replace"
       /\ SecBefore # 0
       /\ \A i \in 1..Len(last.build) : Redeclares(last.before, SecBefore, last.build[i])
       /\ Declared(last.build) = Range(Patterns(last.before, SecBefore))

\* C4: re-declaring attached entries with the same effect and match-scope leaves
\* isModified and the section's entry order unchanged.
C4_MinimalDiff ==
    RedeclaredOnly =>
        /\ file.modified = last.before.modified
        /\ SectionTuples(file, LastSec) = SectionTuples(last.before, SecBefore)

\* The section pattern p is attached to in f (0: none)
AttachedSection(f, p) ==
    IF EntryCtl(f, p) = 0 THEN 0 ELSE f.ctls[EntryCtl(f, p)].attachedTo

LastPattern == gitIgnorePattern(last.raw).pattern

\* The last call attached a handle of section last.title for a pattern that was
\* attached to another section
MovedIn ==
    /\ last.op \in {"declare", "held"}
    /\ last.call \in {"attach", "ignore", "include"}
    /\ AttachedSection(last.before, LastPattern) # 0
    /\ AttachedSection(last.before, LastPattern) # SecBefore

\* The section the moved pattern was attached to (section indices never change)
MovedFrom == AttachedSection(last.before, LastPattern)

\* C5: attaching a handle of section B for a pattern attached to section A moves
\* the pattern: B yields it, A does not, A's handles for it are detached and see
\* B as current section, the entry has the declared effect, isModified is true.
C5_MoveBetweenSections ==
    MovedIn =>
        /\ LastPattern \in Range(Patterns(file, LastSec))
        /\ LastPattern \notin Range(Patterns(file, MovedFrom))
        /\ \A h \in 1..Len(file.handles) :
              (PatternOf(file, h) = LastPattern /\ file.handles[h].sec = MovedFrom) =>
                  IsDetached(file, h) /\ CurrentSection(file, h) = LastSec
        /\ last.call = "ignore" => TupleOf(file, LastSec, LastPattern).effect = "ignore"
        /\ last.call = "include" => TupleOf(file, LastSec, LastPattern).effect = "include"
        /\ file.modified

\* C6: every pattern is yielded by the entries() of at most one section, and at
\* most once within it.
C6_PatternUnique ==
    \A s1, s2 \in 1..Len(file.titles) :
        \A i \in 1..Len(Patterns(file, s1)), j \in 1..Len(Patterns(file, s2)) :
            Patterns(file, s1)[i] = Patterns(file, s2)[j] => s1 = s2 /\ i = j

\* A section still keeps the record of a pattern that another section yields
C6_Witness ==
    \E s1, s2 \in 1..Len(file.titles) :
        /\ s1 # s2
        /\ \E i \in 1..Len(file.entries[s1]) :
              file.entries[s1][i].pattern \in Range(Patterns(file, s2))

\* The file parsed from the text of f
Reparsed(f) == Parse(EmptyFile, FileText(f, EOL))

\* C7: parsing file.toString() into a fresh file yields the same (title, pattern,
\* effect, match) tuples in the same order.
C7_RoundTrip == Tuples(Reparsed(file)) = Tuples(file)

\* The tuples of f outside the section `title` whose patterns are not in `declared`
Unmanaged(f, title, declared) ==
    SelectSeq(Tuples(f), LAMBDA t : t.title # title /\ t.pattern \notin declared)

\* C8: replace(build) on a section leaves the entries of the other sections whose
\* patterns build does not declare as they were: same section, order, effect, match.
C8_UnmanagedUntouched ==
    last.op = "replace" =>
        Unmanaged(file, last.title, Declared(last.build))
            = Unmanaged(last.before, last.title, Declared(last.build))

\* C9: save() writes iff isModified was true; the flag is cleared only after a
\* write that succeeded; a failed write propagates and leaves the flag true.
C9_SaveIffModified ==
    last.op = "save" =>
        /\ ~last.before.modified =>
              last.ok /\ disk = last.disk /\ ~file.modified
        /\ (last.before.modified /\ last.ok) =>
              disk = FileText(last.before, OsEOL) /\ ~file.modified
        /\ ~last.ok => last.before.modified /\ disk = last.disk /\ file.modified

\* The write of a modified file has failed
C9_Witness == last.op = "save" /\ ~last.ok /\ last.before.modified

\* C10: parse(text) leaves isModified as it was before the call.
C10_ParseKeepsModified ==
    last.op = "parse" => file.modified = last.before.modified

\* A parse moved a pattern from one section to another
C10_Witness ==
    /\ last.op = "parse"
    /\ \E p \in DOMAIN last.before.registry :
          /\ AttachedSection(last.before, p) # 0
          /\ AttachedSection(file, p) # 0
          /\ AttachedSection(file, p) # AttachedSection(last.before, p)

\* The last call was remove() alone: on a kept handle, or on section.entry(p)
\* with p free of markers
LastRemove ==
    /\ last.op \in {"declare", "held"}
    /\ last.call = "remove"
    /\ gitIgnorePattern(last.raw).effect = "none"
    /\ gitIgnorePattern(last.raw).match = "none"

\* The pattern of the last call was attached to the section of the handle
WasAttachedHere == SecBefore # 0 /\ AttachedSection(last.before, LastPattern) = SecBefore

\* C11: remove() on a handle whose pattern is attached to its section drops the
\* pattern from the registry and from every section, leaves every handle of the
\* pattern detached with no current section, sets isModified, and the pattern can
\* be attached again; otherwise remove() changes no entry and not isModified.
C11_Remove ==
    LastRemove =>
        /\ WasAttachedHere =>
              /\ LastPattern \notin DOMAIN file.registry
              /\ \A sec \in 1..Len(file.titles) : LastPattern \notin Range(Patterns(file, sec))
              /\ \A h \in 1..Len(file.handles) :
                    PatternOf(file, h) = LastPattern =>
                        IsDetached(file, h) /\ CurrentSection(file, h) = 0
              /\ file.modified
              /\ LastPattern \in Range(Patterns(
                     Exec(file, [op |-> "attach", title |-> last.title, raw |-> LastPattern]),
                     LastSec))
        /\ ~WasAttachedHere =>
              /\ Tuples(file) = Tuples(last.before)
              /\ file.modified = last.before.modified

\* C12: every entry a section yields reports that section as its current section
\* and is not detached; a pattern that moved away or was removed is not yielded,
\* even while the section still keeps its record.
C12_YieldedAreCurrent ==
    \A sec \in 1..Len(file.titles) :
        /\ \A i \in 1..Len(Yielded(file, sec)) :
              /\ CurrentSection(file, Yielded(file, sec)[i].entry) = sec
              /\ ~IsDetached(file, Yielded(file, sec)[i].entry)
        /\ \A i \in 1..Len(file.entries[sec]) :
              AttachedSection(file, file.entries[sec][i].pattern) # sec =>
                  file.entries[sec][i].pattern \notin Range(Patterns(file, sec))

\* A section keeps the record of a pattern that is attached elsewhere or removed
C12_Witness ==
    \E sec \in 1..Len(file.titles) :
        \E i \in 1..Len(file.entries[sec]) :
            AttachedSection(file, file.entries[sec][i].pattern) # sec

\* The last call was setEffect(v) or setMatch(v) on the kept handle
LastSetter == last.op = "held" /\ last.call \in {"effectIgnore", "effectInclude", "matchDirs"}

\* The value the last setter call was given
SetValue ==
    CASE last.call = "effectIgnore" -> "ignore"
      [] last.call = "effectInclude" -> "include"
      [] OTHER -> "dirs"

\* The value the getter of the same property reported before the call
GotBefore ==
    IF last.call = "matchDirs" THEN MatchOf(last.before, last.handle)
    ELSE EffectOf(last.before, last.handle)

\* The kept handle was attached to its own section before the call
HandleWasAttached ==
    /\ ~IsDetached(last.before, last.handle)
    /\ CurrentSection(last.before, last.handle) = last.before.handles[last.handle].sec

\* C13: setEffect(v)/setMatch(v) on an attached handle sets isModified if v differs
\* from what the getter reported, and leaves isModified unchanged if it does not.
C13_SetterModifiesIffChanged ==
    (LastSetter /\ HandleWasAttached) =>
        IF SetValue # GotBefore THEN file.modified
        ELSE file.modified = last.before.modified

\* C14: setEffect()/setMatch() on a detached handle does not attach it, does not
\* set isModified, and changes no entry that a section serializes.
C14_DetachedSetter ==
    (LastSetter /\ IsDetached(last.before, last.handle)) =>
        /\ IsDetached(file, held)
        /\ file.modified = last.before.modified
        /\ Tuples(file) = Tuples(last.before)

\* The last call was file.entry(raw), written as a statement without a handle call
LastEntryCmd == [op |-> "entry", title |-> <<>>, raw |-> last.raw]

\* The tuple file.entry(raw) is to leave for a pattern that section sec serialized
\* as `old`: the markers of raw applied, the rest as it was
MarkedTuple(old) ==
    [old EXCEPT !.effect = DeclaredEffect(LastEntryCmd, old.effect),
                !.match = DeclaredMatch(LastEntryCmd, old.match)]

\* C15: file.entry(raw) returns a handle of the section the pattern is attached to,
\* not detached, with the markers of raw applied and isModified set exactly when
\* they change a value; for an unattached pattern the handle is a detached handle
\* of the untitled section and isModified is unchanged.
C15_FileEntry ==
    last.op = "fileEntry" =>
        IF AttachedSection(last.before, LastPattern) # 0
        THEN LET sec == AttachedSection(last.before, LastPattern)
                 old == TupleOf(last.before, sec, LastPattern)
             IN /\ file.handles[held].sec = sec
                /\ ~IsDetached(file, held)
                /\ LastPattern \in Range(Patterns(file, sec))
                /\ TupleOf(file, sec, LastPattern) = MarkedTuple(old)
                /\ IF MarkedTuple(old) # old THEN file.modified
                   ELSE file.modified = last.before.modified
        ELSE /\ file.titles[file.handles[held].sec] = <<>>
             /\ IsDetached(file, held)
             /\ file.modified = last.before.modified

\* The pattern of the codec entry starts with '#' or ends with whitespace
NeedsEscape ==
    StartsWith(codec.pattern, "#") \/ IsSpace(codec.pattern[Len(codec.pattern)])

\* C16: an entry whose pattern starts with '#' or ends with whitespace, formatted
\* and parsed back, gives the same pattern, effect and match; an ignore pattern
\* starting with '#' is written with a leading backslash.
C16_EscapeRoundTrip ==
    (codec.phase = "parsed" /\ NeedsEscape) =>
        /\ codec.parsed = [ok |-> TRUE, pattern |-> codec.pattern,
                           match |-> codec.match, effect |-> codec.effect]
        /\ (codec.effect = "ignore" /\ StartsWith(codec.pattern, "#")) =>
              StartsWith2(codec.line, "\\", "#")

\* The file and a second handle for the pattern of the kept handle, obtained from
\* the section `title`
SecondHandle(title) ==
    LET s == SectionCtl(file, title)
    IN SectionEntry(s.f, s.sec, PatternOf(file, held), 0)

\* C17: two handles for the same unattached pattern report the same effect and
\* match-scope, also after one of them was changed with setEffect()/setMatch().
C17_HandlesAgree ==
    (held # 0 /\ AttachedSection(file, PatternOf(file, held)) = 0) =>
        \A title \in Titles :
            /\ EffectOf(SecondHandle(title).f, SecondHandle(title).entry)
                  = EffectOf(SecondHandle(title).f, held)
            /\ MatchOf(SecondHandle(title).f, SecondHandle(title).entry)
                  = MatchOf(SecondHandle(title).f, held)

\* The statements of build that declare pattern p, by index
Declaring(build, p) ==
    {i \in 1..Len(Flat(build)) :
        /\ Flat(build)[i].op \in {"ignore", "include", "attach"}
        /\ gitIgnorePattern(Flat(build)[i].raw).pattern = p}

\* The last statement of build that declares pattern p
LastDeclaring(build, p) ==
    Flat(build)[CHOOSE i \in Declaring(build, p) : \A j \in Declaring(build, p) : j <= i]

\* The patterns the section yielded before the last replace(build) and that build
\* declares with another effect or match-scope
Redefined ==
    {p \in Declared(last.build) :
        /\ SecBefore # 0
        /\ p \in Range(Patterns(last.before, SecBefore))
        /\ LET old == TupleOf(last.before, SecBefore, p)
               cmd == LastDeclaring(last.build, p)
           IN \/ DeclaredEffect(cmd, old.effect) # old.effect
              \/ DeclaredMatch(cmd, old.match) # old.match}

\* C18: replace(build) that declares an attached entry with another effect or
\* match-scope leaves it attached with the value of the last declaration and
\* sets isModified.
C18_ReplaceChangesValue ==
    last.op = "replace" =>
        \A p \in Redefined :
            LET old == TupleOf(last.before, SecBefore, p)
                cmd == LastDeclaring(last.build, p)
            IN /\ p \in Range(Patterns(file, LastSec))
               /\ TupleOf(file, LastSec, p).effect = DeclaredEffect(cmd, old.effect)
               /\ TupleOf(file, LastSec, p).match = DeclaredMatch(cmd, old.match)
               /\ file.modified

\* The last call was a replace(build) whose build threw
ReplaceThrew == last.op = "replace" /\ ~last.ok

\* The patterns the section of the last call yielded before the call
YieldedBefore ==
    IF SecBefore = 0 THEN {} ELSE Range(Patterns(last.before, SecBefore))

\* The file of the last replace(build) when build() has ended and the sweep has
\* not yet run
MidPass ==
    LET s == SectionCtl(last.before, last.title)
    IN RunBuild(DetachAll([s.f EXCEPT !.detached[s.sec] = [on |-> TRUE, map |-> <<>>]],
                          s.sec, 1),
                last.build)

\* The patterns build attached to the section that the section did not yield before
AttachedByBuild ==
    {p \in Declared(last.build) \ YieldedBefore : AttachedSection(MidPass, p) = LastSec}

ReplaceNested ==
    /\ last.op = "replace"
    /\ \E i \in 1..Len(last.build) : last.build[i].op = "replace"

\* The statements of the last build up to its nested replace() call
UpToInner ==
    SubSeq(last.build, 1,
           CHOOSE i \in 1..Len(last.build) : last.build[i].op = "replace")

\* The file of the last replace(build) when the nested replace() has returned
AfterInner ==
    LET s == SectionCtl(last.before, last.title)
    IN RunBuild(DetachAll([s.f EXCEPT !.detached[s.sec] = [on |-> TRUE, map |-> <<>>]],
                          s.sec, 1),
                UpToInner)

\* C20: a replace() called on a section while a replace() on it is running
\* starts no sweep of its own: the entries the outer or the inner build declares
\* are all retained, and the entries neither declares are still attached when
\* the inner call returns and removed when the outermost call returns.
C20_NestedReplace ==
    ReplaceNested =>
        /\ \A p \in Declared(last.build) : p \in Range(Patterns(file, LastSec))
        /\ \A p \in YieldedBefore \ Declared(last.build) :
              /\ p \in Range(Patterns(AfterInner, LastSec))
              /\ p \notin Range(Patterns(file, LastSec))
        /\ AfterInner.detached[LastSec].on

\* The patterns a build touches with setMatch() and declares in no other way
SetMatchOnly(build) ==
    {gitIgnorePattern(Flat(build)[i].raw).pattern :
        i \in {j \in 1..Len(Flat(build)) : Flat(build)[j].op \in {"matchAll", "matchDirs"}}}
    \ Declared(build)

\* C21: an entry attached to the section before replace(build) that build touches
\* only with entry(p).setMatch(m) is still attached to the section after the pass.
C21_SetMatchUnmarks ==
    last.op = "replace" =>
        \A p \in SetMatchOnly(last.build) \cap YieldedBefore :
            /\ p \in Range(Patterns(file, LastSec))
            /\ AttachedSection(file, p) = LastSec

\* C22: isModified is true only while the tuples toString() would serialize
\* differ from those at the last parse or save: operations that bring the file
\* back to that state leave isModified false.
C22_ModifiedOnlyWhileDiffers == file.modified => Tuples(file) # saved

\* The last call, a direct declaration or a replace(build), made on file f
LastCallOn(f) ==
    IF last.op = "declare" THEN Exec(f, LastCmd)
    ELSE LET s == SectionCtl(f, last.title) IN ReplaceEntries(s.f, s.sec, last.build)

\* The file the last call would have left if file.toString() had been called
\* just before it
WithIteration == LastCallOn(IterateAll(last.before, 1))

\* C23: an iteration of entries() inserted before a call changes nothing the
\* caller can observe after the call: the sections' entries and their order, the
\* toString() output and isModified are the same as without the iteration.
C23_IterationIsNeutral ==
    last.op \in {"declare", "replace"} =>
        /\ Tuples(WithIteration) = Tuples(file)
        /\ FileText(WithIteration, EOL) = FileText(file, EOL)
        /\ WithIteration.modified = file.modified

\* The lines of the text of the last parse(), as parse() reads them
LastLines ==
    LET ls == SplitLines(last.text, 1, <<>>) IN [i \in 1..Len(ls) |-> TrimEnd(ls[i])]

IsComment(line) == StartsWith(line, "#")

\* Lines i..j are a maximal run of consecutive comment lines
CommentRun(i, j) ==
    /\ i <= j
    /\ \A k \in i..j : IsComment(LastLines[k])
    /\ i = 1 \/ ~IsComment(LastLines[i - 1])
    /\ j = Len(LastLines) \/ ~IsComment(LastLines[j + 1])

\* The stripped, non-empty comments of lines i..j joined by newlines
RECURSIVE JoinedTitle(_, _)
JoinedTitle(i, j) ==
    IF i > j THEN <<>>
    ELSE LET c == Trim(Tail(LastLines[i]))
             rest == JoinedTitle(i + 1, j)
         IN IF c = <<>> THEN rest
            ELSE IF rest = <<>> THEN c
            ELSE c \o <<"\n">> \o rest

\* Lines i..j hold a bare '#' line between two comment lines with text
BareBetween(i, j) ==
    \E a, b, c \in i..j :
        /\ a < b /\ b < c
        /\ Trim(Tail(LastLines[a])) # <<>>
        /\ Trim(Tail(LastLines[b])) = <<>>
        /\ Trim(Tail(LastLines[c])) # <<>>

\* C24 as stated: a bare '#' line ends title accumulation, so the comment lines
\* before it and after it are not joined into one multi-line title.
C24_BareCommentEndsTitle ==
    last.op = "parse" =>
        \A i, j \in 1..Len(LastLines) :
            (CommentRun(i, j) /\ BareBetween(i, j)) =>
                IndexOfTitle(file, JoinedTitle(i, j)) = 0

\* C24 amended: a bare '#' line does not end title accumulation: all comment
\* lines of a run of consecutive comment lines are joined into one multi-line
\* title, to which the bare '#' lines add nothing.
C24_BareCommentJoins ==
    last.op = "parse" =>
        \A i, j \in 1..Len(LastLines) :
            (CommentRun(i, j) /\ JoinedTitle(i, j) # <<>>) =>
                IndexOfTitle(file, JoinedTitle(i, j)) # 0

\* A text with a bare '#' line between two title lines was parsed
C24_Witness ==
    /\ last.op = "parse"
    /\ \E i, j \in 1..Len(LastLines) : CommentRun(i, j) /\ BareBetween(i, j)

\* Line k of the last parsed text holds a pattern
IsPatternLine(k) == ~IsComment(LastLines[k]) /\ ParseLine(LastLines[k]).ok

\* The last comment line before line k (0: none)
PrevCommentLine(k) ==
    IF \E j \in 1..(k - 1) : IsComment(LastLines[j])
    THEN CHOOSE j \in 1..(k - 1) :
             IsComment(LastLines[j]) /\ \A m \in (j + 1)..(k - 1) : ~IsComment(LastLines[m])
    ELSE 0

\* The first line of the run of consecutive comment lines that ends at line j
RunStart(j) ==
    CHOOSE i \in 1..j :
        /\ \A m \in i..j : IsComment(LastLines[m])
        /\ i = 1 \/ ~IsComment(LastLines[i - 1])

\* The title of the comment block that most recently precedes line k; the empty
\* title when there is none or the block holds bare '#' lines only
TitleFor(k) ==
    IF PrevCommentLine(k) = 0 THEN <<>>
    ELSE JoinedTitle(RunStart(PrevCommentLine(k)), PrevCommentLine(k))

\* The section line k makes parse() open, if any: a title block is opened by the
\* first other line after it or by the end of the text, the untitled section by
\* a pattern line that has no title
OpenedAt(k) ==
    IF k > Len(LastLines)
    THEN IF Len(LastLines) > 0 /\ IsComment(LastLines[Len(LastLines)]) /\ TitleFor(k) # <<>>
         THEN <<TitleFor(k)>> ELSE <<>>
    ELSE IF IsComment(LastLines[k]) THEN <<>>
    ELSE IF TitleFor(k) # <<>>
         THEN (IF PrevCommentLine(k) = k - 1 THEN <<TitleFor(k)>> ELSE <<>>)
    ELSE IF IsPatternLine(k) THEN << <<>> >> ELSE <<>>

\* The titles of the sections in the order the text opens them
ExpectedTitles ==
    Dedupe(Flatten([k \in 1..(Len(LastLines) + 1) |-> OpenedAt(k)]), <<>>)

\* Line k is the last line of the text that holds its pattern
LastOccurrence(k) ==
    \A m \in (k + 1)..Len(LastLines) :
        IsPatternLine(m) => ParseLine(LastLines[m]).pattern # ParseLine(LastLines[k]).pattern

\* C25: parse() of a text into a new file opens the sections the title blocks
\* name, in file order, also for a title block without pattern lines, and the
\* untitled section for pattern lines without a title; blank lines open nothing;
\* every pattern is attached to the section of the title block that most
\* recently precedes its (last) line.
C25_ParseSections ==
    last.op = "parse" =>
        /\ file.titles = ExpectedTitles
        /\ \A k \in 1..Len(LastLines) :
              (IsPatternLine(k) /\ LastOccurrence(k)) =>
                  LET p == ParseLine(LastLines[k]).pattern
                      sec == IndexOfTitle(file, TitleFor(k))
                  IN /\ sec # 0
                     /\ AttachedSection(file, p) = sec
                     /\ p \in Range(Patterns(file, sec))
        /\ \A i \in 1..Len(Tuples(file)) :
              \E k \in 1..Len(LastLines) :
                  /\ IsPatternLine(k) /\ LastOccurrence(k)
                  /\ Tuples(file)[i].pattern = ParseLine(LastLines[k]).pattern
                  /\ Tuples(file)[i].title = TitleFor(k)

\* A text was parsed in which a bare '#' line closed a titled section with a
\* pattern, and another pattern follows
C25_Witness ==
    /\ last.op = "parse"
    /\ \E k \in 1..Len(LastLines) :
          /\ IsPatternLine(k)
          /\ PrevCommentLine(k) # 0
          /\ TitleFor(k) = <<>>
    /\ Len(file.titles) = 2

\* The last call was file.toString() with the default end of line
DefaultToString == last.op = "toString" /\ last.raw = OsEOL

\* The lines `ls`, each with `head` before it and `eol` after it
RECURSIVE LinesText(_, _, _)
LinesText(ls, head, eol) ==
    IF ls = <<>> THEN <<>> ELSE head \o Head(ls) \o eol \o LinesText(Tail(ls), head, eol)

\* The title comment of a section: one '# ' line per title line
TitleComment(title, eol) ==
    IF title = <<>> THEN <<>> ELSE LinesText(SplitLines(title, 1, <<>>), <<"#", " ">>, eol)

\* The entry lines of section sec
EntryLines(f, sec, eol) ==
    LET t == SectionTuples(f, sec)
    IN LinesText([i \in 1..Len(t) |-> FormatLine(t[i].pattern, t[i].effect, t[i].match)],
                 <<>>, eol)

\* The text of the first n sections: a section after earlier output follows one
\* blank line, and a bare '#' line if it is untitled
RECURSIVE Rendered(_, _, _)
Rendered(f, n, eol) ==
    IF n = 0 THEN <<>>
    ELSE LET before == Rendered(f, n - 1, eol)
             block == TitleComment(f.titles[n], eol) \o EntryLines(f, n, eol)
         IN IF before = <<>> THEN block
            ELSE before \o eol
                        \o (IF f.titles[n] = <<>> THEN <<"#">> \o eol ELSE <<>>)
                        \o block

\* C26: file.toString() renders the sections in first-use order, each as its
\* title comment (one '# ' line per title line) and its entry lines, one blank
\* line before a section that follows earlier output, a bare '#' line before an
\* untitled section that follows earlier output, and nothing for a leading
\* untitled section without entries.
C26_ToString ==
    DefaultToString =>
        last.text = Rendered(last.before, Len(last.before.titles), OsEOL)

\* toString() rendered a file with a two-line title and an untitled section
\* that is not the first section
C26_Witness ==
    /\ DefaultToString
    /\ \E i \in 2..Len(last.before.titles) : last.before.titles[i] = <<>>
    /\ \E i \in 1..Len(last.before.titles) : "\n" \in Range(last.before.titles[i])

\* The last call was file.toString(eol) with an eol other than the default
EolToString == last.op = "toString" /\ last.raw # OsEOL

\* Text ends with eol and holds no line break outside a copy of eol: every line
\* of it ends with eol
RECURSIVE LinesEndWith(_, _)
LinesEndWith(text, eol) ==
    IF text = <<>> THEN TRUE
    ELSE IF \E i \in 1..Len(text) : text[i] \in {"\r", "\n"}
    THEN LET i == CHOOSE k \in 1..Len(text) :
                      /\ text[k] \in {"\r", "\n"}
                      /\ \A m \in 1..(k - 1) : text[m] \notin {"\r", "\n"}
         IN /\ i + Len(eol) - 1 <= Len(text)
            /\ SubSeq(text, i, i + Len(eol) - 1) = eol
            /\ LinesEndWith(SubSeq(text, i + Len(eol), Len(text)), eol)
    ELSE FALSE

\* C27: file.toString(eol) ends every line of its output (title lines, entry
\* lines, the blank separator and the bare '#' line) with the eol it was given,
\* whatever the default end of line of the platform is.
C27_ToStringEol ==
    EolToString =>
        /\ LinesEndWith(last.text, last.raw)
        /\ last.text = Rendered(last.before, Len(last.before.titles), last.raw)

\* The last call was section.entry(p).ignore() for a pattern that was attached to
\* another section
MovedInByIgnore == MovedIn /\ last.op = "declare" /\ last.call = "ignore"

\* The file after a successful save() and a replace() of the section of the last
\* call whose build repeats the last call
RedeclaredInReplace == ReplaceEntries(Save(file, TRUE), LastSec, <<LastCmd>>)

\* C28: a pattern moved into a section from another section and then re-declared
\* inside replace(build) on that section, with the same effect and match-scope,
\* is still attached to the section after the pass, and isModified, false before
\* the pass, is still false.
C28_MovedInRetained ==
    MovedInByIgnore =>
        /\ LastPattern \in Range(Patterns(RedeclaredInReplace, LastSec))
        /\ AttachedSection(RedeclaredInReplace, LastPattern) = LastSec
        /\ ~RedeclaredInReplace.modified

\* The match-scope other than m
OtherMatch(m) == IF m = "dirs" THEN "all" ELSE "dirs"

\* C29: between calls, when no replace() is running, no registered entry carries
\* the detached flag, and setMatch() with another value on an entry a section
\* yields marks the saved file modified.
C29_NoFlagOutsideReplace ==
    /\ \A p \in DOMAIN file.registry : ~file.ctls[file.registry[p]].detached
    /\ \A sec \in 1..Len(file.titles) :
          \A i \in 1..Len(Yielded(file, sec)) :
              LET h == Yielded(file, sec)[i].entry
              IN SetMatch(Save(file, TRUE), h, OtherMatch(MatchOf(file, h))).modified

\* The last call was a lookup: section(title).entry(p) or file.entry(p)
Lookup == last.op \in {"hold", "fileEntry"}

\* The pattern of the last call was written without '!' and '/' markers
PlainPattern ==
    gitIgnorePattern(last.raw).effect = "none" /\ gitIgnorePattern(last.raw).match = "none"

\* C30 as stated: after a lookup with no attach(), ignore() or remove() after it
\* toString() returns the same text as before, so whenever isModified is false
\* the file serializes what was last parsed or saved.
C30_LookupKeepsText ==
    /\ Lookup => FileText(file, OsEOL) = FileText(last.before, OsEOL)
    /\ ~file.modified => Tuples(file) = saved

\* What toString() appends for the section a lookup has created, if any
AddedSection ==
    IF Len(file.titles) = Len(last.before.titles) THEN <<>>
    ELSE LET title == file.titles[Len(file.titles)]
         IN IF FileText(last.before, OsEOL) = <<>> THEN TitleComment(title, OsEOL)
            ELSE OsEOL \o (IF title = <<>> THEN <<"#">> \o OsEOL ELSE <<>>)
                       \o TitleComment(title, OsEOL)

\* C30 amended: a lookup with a pattern free of markers, and file.section(title)
\* alone, leave the serialized entries and isModified unchanged; toString()
\* returns the text as before, followed by the separator and the title comment
\* of the section the lookup has created, if it created one.
C30_LookupKeepsEntries ==
    (Lookup /\ PlainPattern) =>
        /\ Tuples(file) = Tuples(last.before)
        /\ Tuples(SectionCtl(last.before, last.title).f) = Tuples(last.before)
        /\ file.modified = last.before.modified
        /\ FileText(file, OsEOL) = FileText(last.before, OsEOL) \o AddedSection

\* A lookup created a section in a file that has entries
C30_Witness ==
    /\ Lookup /\ PlainPattern
    /\ Len(file.titles) > Len(last.before.titles)
    /\ Tuples(file) # <<>>

====
